---- MODULE Spec2Model ----
(***************************************************************************)
(* Model of the metric-path translation engine of graphite-remote-adapter: *)
(* rule matching, template execution, default-path encoding, the paths     *)
(* cache, the write handler and configuration reload.                      *)
(*                                                                         *)
(* Strings are sequences of one-character strings, so that escaping and    *)
(* concatenation are computed and not assumed.                             *)
(***************************************************************************)
EXTENDS Integers, Sequences, FiniteSets, Bags, TLC

VARIABLES
    now,                \* wall clock (time.Now), in ticks
    pathsCache,         \* paths.pathsCache: fingerprint -> entry, or NoCache
    pathsCacheEnabled,  \* paths.pathsCacheEnabled
    hcfg,               \* Handler.cfg: the active configuration
    gen,                \* number of ApplyConfig calls so far (ghost)
    writer,             \* Handler.writers[0]: the client built by buildClients
    hlock,              \* Handler.lock
    rl,                 \* the reload goroutine of main()
    req,                \* the /write requests in flight
    last,               \* record of the latest pathsFromMetric call (ghost)
    prev,               \* record of the call before it (ghost)
    rex,                \* goroutines inside rexGet and matchersMap
    codec,              \* a caller of Escape and Unescape
    parse,              \* a caller of defaultPath and MetricLabelsFromPath
    rd,                 \* a read query inside Client.handleReadQuery
    iter,               \* the order in which the runtime ranges over a map
    cc,                 \* one Client: its carbon connection and its lock
    snd,                \* the goroutines calling Write and Target on it
    fd,                 \* one call of Client.fetchData and its goroutines
    reloadCh,           \* Handler.reloadCh: the handlers blocked sending on it
    post,               \* the POST /-/reload requests
    rreq                \* the /read request in flight

vars == <<now, pathsCache, pathsCacheEnabled, hcfg, gen, writer, hlock, rl,
          req, last, prev, rex, codec, parse, rd, iter, cc, snd, fd,
          reloadCh, post, rreq>>

\* the state of the write side and of the read side
writeVars == <<now, pathsCache, pathsCacheEnabled, hcfg, gen, writer, hlock, rl,
               req, last, prev, rex>>
readVars == <<codec, parse, rd>>
\* the state of the runtime and of the network
envVars == <<iter, cc, snd, fd>>
\* the reload endpoint and the read endpoint of the web handler
webVars == <<reloadCh, post, rreq>>

----------------------------------------------------------------------------
(* Bounds *)

MaxRules == 2
MaxTime == 2
MaxReloads == 1
MaxBatch == 2
MaxStr == 3
MaxNodes == 3
MaxTargets == 2
MaxLines == 2
MaxConns == 2
MaxWorkers == 1
MaxFetchTargets == 2
MaxSeries == 2

----------------------------------------------------------------------------
(* Strings *)

Dot == <<".">>

\* characters that Escape writes backslash-escaped
symbols == {"(", ")", "{", "}", ",", "'", "\"", "\\"}

\* characters that Escape always percent-encodes
percentEncoded == {".", "%", "/", "="}

\* the two bytes of a multi-byte character (e-acute, C3 A9 in UTF-8)
HighBytes == {"0xC3", "0xA9"}

PercentCode(c) ==
    CASE c = "." -> <<"%", "2", "E">>
      [] c = "%" -> <<"%", "2", "5">>
      [] c = "/" -> <<"%", "2", "F">>
      [] c = "=" -> <<"%", "3", "D">>
      [] c = " " -> <<"%", "2", "0">>
      [] c = "0xC3" -> <<"%", "C", "3">>
      [] c = "0xA9" -> <<"%", "A", "9">>
      [] OTHER   -> <<"%", "?", "?">>

EscapeChar(c) ==
    IF c \in percentEncoded THEN PercentCode(c)
    ELSE IF c \in symbols THEN <<"\\", c>>
    ELSE IF c = " " \/ c \in HighBytes THEN PercentCode(c)
    ELSE <<c>>

RECURSIVE Escape(_)
Escape(s) == IF s = <<>> THEN <<>> ELSE EscapeChar(Head(s)) \o Escape(Tail(s))

HexDigits == {"0", "1", "2", "3", "4", "5", "6", "7", "8", "9",
              "A", "B", "C", "D", "E", "F", "a", "b", "c", "d", "e", "f"}

\* the byte a percent escape stands for
HexByte(h1, h2) ==
    CASE <<h1, h2>> = <<"2", "E">> -> "."
      [] <<h1, h2>> = <<"2", "5">> -> "%"
      [] <<h1, h2>> = <<"2", "F">> -> "/"
      [] <<h1, h2>> = <<"3", "D">> -> "="
      [] <<h1, h2>> = <<"2", "0">> -> " "
      [] <<h1, h2>> = <<"5", "C">> -> "\\"
      [] <<h1, h2>> = <<"C", "3">> -> "0xC3"
      [] <<h1, h2>> = <<"A", "9">> -> "0xA9"
      [] OTHER -> "0x??"

\* url.PathUnescape rejects a string with a % that two hex digits do not follow
RECURSIVE ValidPercent(_)
ValidPercent(s) ==
    IF s = <<>> THEN TRUE
    ELSE IF Head(s) = "%"
    THEN /\ Len(s) >= 3
         /\ s[2] \in HexDigits
         /\ s[3] \in HexDigits
         /\ ValidPercent(SubSeq(s, 4, Len(s)))
    ELSE ValidPercent(Tail(s))

RECURSIVE PercentDecode(_)
PercentDecode(s) ==
    IF s = <<>> THEN <<>>
    ELSE IF Head(s) = "%"
    THEN <<HexByte(s[2], s[3])>> \o PercentDecode(SubSeq(s, 4, Len(s)))
    ELSE <<Head(s)>> \o PercentDecode(Tail(s))

\* new, _ := url.PathUnescape(tv): the empty string when tv is rejected
PathUnescape(s) == IF ValidPercent(s) THEN PercentDecode(s) ELSE <<>>

\* the loop of Unescape over the bytes of new, from index i
RECURSIVE UnescapeFrom(_, _)
UnescapeFrom(new, i) ==
    IF i > Len(new) THEN <<>>
    ELSE (IF new[i] = "\\" /\ i < Len(new) /\ new[i + 1] \in symbols
          THEN <<>>
          ELSE <<new[i]>>)
         \o UnescapeFrom(new, i + 1)

\* an Unescape that drops every backslash
UnescapeDropAll(tv) ==
    SelectSeq(PathUnescape(tv), LAMBDA b : b # "\\")

Unescape(tv) == UnescapeFrom(PathUnescape(tv), 1)

\* strings.Replace(input, from, to, -1) for one-character from and to
RECURSIVE ReplaceAll(_, _, _)
ReplaceAll(s, from, to) ==
    IF s = <<>> THEN <<>>
    ELSE <<IF Head(s) = from THEN to ELSE Head(s)>> \o ReplaceAll(Tail(s), from, to)

----------------------------------------------------------------------------
(* Metrics *)

MetricNameLabel == "__name__"

\* the label names of the model, in the byte order sort.Sort gives them
LabelOrder == <<"__name__", "env", "owner">>

MA == [__name__ |-> <<"m">>, owner |-> <<"X">>]
MB == [__name__ |-> <<"m">>, owner |-> <<"Y">>, env |-> <<"a", ".", "b">>]
MC == [__name__ |-> <<"n">>]

Metrics == {MA, MB, MC}

\* m[ln] of a Go map: the zero value "" for an absent key
Lookup(m, ln) == IF ln \in DOMAIN m THEN m[ln] ELSE <<>>

\* model.Metric.Fingerprint().String(): a hash over the full label set; the
\* model keeps the label set itself as the key (a hash without collisions)
Fingerprint(m) == [fp |-> m]

----------------------------------------------------------------------------
(* Rules and templates *)

NoTmpl == [kind |-> "none"]
TmplShared(id) == [kind |-> "shared", id |-> id]
TmplLabel(id, l) == [kind |-> "label", id |-> id, label |-> l]
TmplReplace(id, l) == [kind |-> "replace", id |-> id, label |-> l]

ReNonEmpty == [kind |-> "nonempty"]
ReOneOf(vs) == [kind |-> "oneof", vals |-> vs]

\* Regexp.MatchString of a pattern compiled as ^(?:pattern)$
MatchString(r, s) ==
    CASE r.kind = "nonempty" -> s # <<>>
      [] r.kind = "oneof"    -> s \in r.vals

\* an empty match or match_re map
NoMatch == <<>>

Rule(mt, re, tmpl, cont) ==
    [Match |-> mt, MatchRE |-> re, Tmpl |-> tmpl, Continue |-> cont]

\* a matcher for which a rule with no criteria matches no metric
matchNeedsCriteria(m, mt, matchRE) ==
    /\ DOMAIN mt # {} \/ DOMAIN matchRE # {}
    /\ \A ln \in DOMAIN mt : Lookup(m, ln) = mt[ln]
    /\ \A ln \in DOMAIN matchRE : MatchString(matchRE[ln], Lookup(m, ln))

match(m, mt, matchRE) ==
    /\ \A ln \in DOMAIN mt : Lookup(m, ln) = mt[ln]
    /\ \A ln \in DOMAIN matchRE : MatchString(matchRE[ln], Lookup(m, ln))

loadContext(templateData, m) ==
    [shared |-> templateData, labels |-> m]

NoValue == <<"<", "n", "o", " ", "v", "a", "l", "u", "e", ">">>

\* Template.Execute: the rendered text, or an error
Execute(tmpl, context) ==
    CASE tmpl.kind = "shared" ->
            [err |-> FALSE,
             out |-> <<"t", tmpl.id>> \o Dot \o
                     (IF context.shared = <<>> THEN NoValue ELSE context.shared)]
      [] tmpl.kind = "label" ->
            [err |-> FALSE,
             out |-> <<"t", tmpl.id>> \o Dot \o
                     (IF tmpl.label \in DOMAIN context.labels
                      THEN context.labels[tmpl.label] ELSE NoValue)]
      [] tmpl.kind = "replace" ->
            IF tmpl.label \in DOMAIN context.labels
            THEN [err |-> FALSE,
                  out |-> <<"t", tmpl.id>> \o Dot \o
                          ReplaceAll(context.labels[tmpl.label], " ", "_")]
            ELSE [err |-> TRUE, out |-> <<"t", tmpl.id>> \o Dot]

----------------------------------------------------------------------------
(* Path generation *)

FormatCarbon == 1
FormatCarbonTags == 2
FormatCarbonOpenMetrics == 3

Formats == {FormatCarbon, FormatCarbonTags, FormatCarbonOpenMetrics}

\* the rule walk from rule i on; paths, stop and execs are the loop's state
RECURSIVE walkRules(_, _, _, _, _, _, _)
walkRules(m, rules, templateData, i, paths, stop, execs) ==
    IF i > Len(rules)
    THEN [paths |-> paths, stop |-> stop, err |-> FALSE, execs |-> execs]
    ELSE LET rule == rules[i] IN
         IF ~match(m, rule.Match, rule.MatchRE)
         THEN walkRules(m, rules, templateData, i + 1, paths, stop, execs)
         ELSE IF rule.Continue = FALSE /\ rule.Tmpl = NoTmpl
         THEN [paths |-> <<>>, stop |-> TRUE, err |-> FALSE, execs |-> execs]
         ELSE LET context == loadContext(templateData, m)
                  r == Execute(rule.Tmpl, context)
              IN IF r.err
                 THEN [paths |-> paths, stop |-> ~rule.Continue, err |-> TRUE,
                       execs |-> execs + 1]
                 ELSE IF rule.Continue = FALSE
                 THEN [paths |-> Append(paths, r.out), stop |-> TRUE,
                       err |-> FALSE, execs |-> execs + 1]
                 ELSE walkRules(m, rules, templateData, i + 1,
                                Append(paths, r.out), FALSE, execs + 1)

\* a walk that never reports that it stopped
templatedPathsNoStop(m, rules, templateData) ==
    [walkRules(m, rules, templateData, 1, <<>>, FALSE, 0) EXCEPT !.stop = FALSE]

templatedPaths(m, rules, templateData) ==
    walkRules(m, rules, templateData, 1, <<>>, FALSE, 0)

\* LabelNames.Less: the byte order of two label names
Rank(l) == CHOOSE i \in DOMAIN LabelOrder : LabelOrder[i] = l
Less(a, b) == Rank(a) < Rank(b)

\* for l := range m: the labels of m in the order the runtime yields them
RangeLabels(m) == SelectSeq(iter, LAMBDA l : l \in DOMAIN m)

\* sort.Sort left out: the labels stay in the order of the iteration
SortNone(ls) == ls

\* sort.Sort(labels), as an insertion sort
RECURSIVE Insert(_, _)
Insert(l, sorted) ==
    IF sorted = <<>> THEN <<l>>
    ELSE IF Less(l, Head(sorted)) THEN <<l>> \o sorted
    ELSE <<Head(sorted)>> \o Insert(l, Tail(sorted))

RECURSIVE Sort(_)
Sort(ls) == IF ls = <<>> THEN <<>> ELSE Insert(Head(ls), Sort(Tail(ls)))

\* the labels defaultPath writes: those of the map, sorted, the name skipped
SortedLabels(m) ==
    SelectSeq(Sort(RangeLabels(m)), LAMBDA l : l # MetricNameLabel)

LabelChars(l) ==
    CASE l = "owner" -> <<"o", "w", "n", "e", "r">>
      [] l = "env"   -> <<"e", "n", "v">>
      [] l = "__name__" -> <<"_", "_", "n", "a", "m", "e", "_", "_">>
      [] OTHER       -> <<"_">>

RECURSIVE labelBuffer(_, _, _, _)
labelBuffer(m, format, ls, first) ==
    IF ls = <<>> THEN <<>>
    ELSE LET k == LabelChars(Head(ls))
             v == Escape(m[Head(ls)])
             piece ==
                 IF format = FormatCarbonOpenMetrics
                 THEN (IF first THEN <<>> ELSE <<",">>) \o k \o <<"=", "\"">> \o v \o <<"\"">>
                 ELSE IF format = FormatCarbonTags
                 THEN <<";">> \o k \o <<"=">> \o v
                 ELSE Dot \o k \o Dot \o v
         IN piece \o labelBuffer(m, format, Tail(ls), FALSE)

defaultPath(m, format, prefix) ==
    LET lbuffer == labelBuffer(m, format, SortedLabels(m), TRUE)
        buffer == prefix \o Escape(Lookup(m, MetricNameLabel))
    IN IF Len(lbuffer) > 0
       THEN IF format = FormatCarbonOpenMetrics
            THEN buffer \o <<"{">> \o lbuffer \o <<"}">>
            ELSE buffer \o lbuffer
       ELSE buffer

\* go-cache: an entry holds the value and its expiration (0: never expires)
NoCache == [nil |-> TRUE]
NoEntry == [none |-> TRUE]

NewCache(ttl) == [ttl |-> ttl, items |-> [m \in {} |-> NoEntry]]

Expired(e, t) == e.exp > 0 /\ t > e.exp

\* a cache whose Get never finds an entry
CacheHitNever(c, k, t) == FALSE

\* cache.Get: the entry's value unless it is absent or expired
CacheHit(c, k, t) == k \in DOMAIN c.items /\ ~Expired(c.items[k], t)

\* cache.Set with cache.DefaultExpiration
CacheSet(c, k, v, t) ==
    LET e == [val |-> v, exp |-> IF c.ttl > 0 THEN t + c.ttl ELSE 0]
    IN [c EXCEPT !.items =
            [x \in DOMAIN c.items \cup {k} |-> IF x = k THEN e ELSE c.items[x]]]

\* cache.DeleteExpired, run by the janitor
DeleteExpired(c, t) ==
    [c EXCEPT !.items =
        [x \in {y \in DOMAIN c.items : ~Expired(c.items[y], t)} |-> c.items[x]]]

\* pathsFromMetric appending the default path whatever the walk says
pathsFromMetricDefaultAlways(enabled, c, t, m, format, prefix, rules, templateData) ==
    IF enabled /\ CacheHit(c, Fingerprint(m), t)
    THEN [paths |-> c.items[Fingerprint(m)].val, err |-> FALSE, hit |-> TRUE,
          execs |-> 0, cache |-> c]
    ELSE LET w == templatedPaths(m, rules, templateData)
             paths == Append(w.paths, defaultPath(m, format, prefix))
         IN [paths |-> paths, err |-> w.err, hit |-> FALSE, execs |-> w.execs,
             cache |-> IF enabled THEN CacheSet(c, Fingerprint(m), paths, t) ELSE c]

\* pathsFromMetric putting the default path first
pathsFromMetricDefaultFirst(enabled, c, t, m, format, prefix, rules, templateData) ==
    IF enabled /\ CacheHit(c, Fingerprint(m), t)
    THEN [paths |-> c.items[Fingerprint(m)].val, err |-> FALSE, hit |-> TRUE,
          execs |-> 0, cache |-> c]
    ELSE LET w == templatedPaths(m, rules, templateData)
             paths == IF ~w.stop
                      THEN <<defaultPath(m, format, prefix)>> \o w.paths
                      ELSE w.paths
         IN [paths |-> paths, err |-> w.err, hit |-> FALSE, execs |-> w.execs,
             cache |-> IF enabled THEN CacheSet(c, Fingerprint(m), paths, t) ELSE c]

\* pathsFromMetric: the returned paths and error, and the cache it leaves
pathsFromMetric(enabled, c, t, m, format, prefix, rules, templateData) ==
    IF enabled /\ CacheHit(c, Fingerprint(m), t)
    THEN [paths |-> c.items[Fingerprint(m)].val, err |-> FALSE, hit |-> TRUE,
          execs |-> 0, cache |-> c]
    ELSE LET w == templatedPaths(m, rules, templateData)
             paths == IF ~w.stop
                      THEN Append(w.paths, defaultPath(m, format, prefix))
                      ELSE w.paths
         IN [paths |-> paths, err |-> w.err, hit |-> FALSE, execs |-> w.execs,
             cache |-> IF enabled THEN CacheSet(c, Fingerprint(m), paths, t) ELSE c]

----------------------------------------------------------------------------
(* Configurations *)

\* the rules configurations are built from
RuleContLabel == Rule([owner |-> <<"X">>], NoMatch, TmplLabel("1", "owner"), TRUE)
RuleContShared == Rule(NoMatch, [owner |-> ReNonEmpty], TmplShared("2"), TRUE)
RuleContReplace == Rule(NoMatch, NoMatch, TmplReplace("3", "env"), TRUE)
RuleTermShared == Rule(NoMatch, [owner |-> ReOneOf({<<"X">>, <<"Y">>})], TmplShared("4"), FALSE)
RuleSilenceAll == Rule(NoMatch, NoMatch, NoTmpl, FALSE)
RuleSilenceX == Rule([owner |-> <<"X">>], NoMatch, NoTmpl, FALSE)
RuleTermReplace == Rule([owner |-> <<"Y">>], NoMatch, TmplReplace("6", "zone"), FALSE)

RuleTermAll == Rule(NoMatch, NoMatch, TmplShared("7"), FALSE)

RulePool == {RuleContLabel, RuleContShared, RuleContReplace, RuleTermShared,
             RuleSilenceAll, RuleTermReplace, RuleTermAll}

RECURSIVE SeqsUpTo(_, _)
SeqsUpTo(S, n) ==
    IF n = 0 THEN {<<>>}
    ELSE LET shorter == SeqsUpTo(S, n - 1)
         IN shorter \cup {Append(q, x) : q \in shorter, x \in S}

RuleLists == SeqsUpTo(RulePool, MaxRules)

PrefixP == <<"p", ".">>
PrefixQ == <<"q", ".">>
PrefixR == <<"r", ".">>

\* the parsed configuration (config.Config with its graphite section)
Config(rules, td, prefix, tags, om, cache, ttl, carbon, url) ==
    [Rules |-> rules, TemplateData |-> td, DefaultPrefix |-> prefix,
     EnableTags |-> tags, UseOpenMetricsFormat |-> om,
     EnablePathsCache |-> cache, PathsCacheTTL |-> ttl,
     CarbonAddress |-> carbon, ReadURL |-> url]

\* the configurations a reload can load
FileConfigs ==
    { Config(<<RuleContShared, RuleContReplace>>, <<"d">>, PrefixP, FALSE, FALSE, TRUE, 1, TRUE, TRUE),
      Config(<<RuleSilenceX>>, <<"e">>, PrefixR, TRUE, FALSE, FALSE, 1, TRUE, TRUE),
      Config(<<>>, <<>>, PrefixP, FALSE, FALSE, TRUE, 0, TRUE, FALSE),
      Config(<<RuleContLabel, RuleTermShared>>, <<"e">>, PrefixR, TRUE, TRUE, TRUE, 2, FALSE, TRUE) }

\* the configurations the rule walk is explored under
WalkConfigs ==
    { Config(rules, <<"d">>, PrefixP, tags, tags /\ om, cache, 1, TRUE, TRUE) :
        rules \in RuleLists, tags \in BOOLEAN, om \in BOOLEAN, cache \in BOOLEAN }

----------------------------------------------------------------------------
(* Client *)

NoClient == [nil |-> TRUE]

\* NewClient's choice of the write format
FormatOf(cfg) ==
    IF cfg.EnableTags
    THEN IF cfg.UseOpenMetricsFormat THEN FormatCarbonOpenMetrics ELSE FormatCarbonTags
    ELSE FormatCarbon

\* NewClient returns nil when neither a carbon address nor a read URL is set
HasClient(cfg) == cfg.CarbonAddress \/ cfg.ReadURL

\* NewClient: the client it returns (g tags the configuration generation)
NewClient(cfg, g) ==
    IF ~HasClient(cfg) THEN NoClient
    ELSE [cfg |-> cfg, format |-> FormatOf(cfg), gen |-> g]

\* InitPathsCache creating the cache once and keeping it over reloads
InitPathsCacheOnce(cfg, c) ==
    IF HasClient(cfg) /\ cfg.EnablePathsCache /\ c = NoCache
    THEN NewCache(cfg.PathsCacheTTL) ELSE c

\* InitPathsCache as NewClient calls it: a new cache when the configuration
\* enables it, the package variables untouched otherwise
InitPathsCache(cfg, c) ==
    IF HasClient(cfg) /\ cfg.EnablePathsCache THEN NewCache(cfg.PathsCacheTTL) ELSE c

InitPathsCacheEnabled(cfg, e) ==
    IF HasClient(cfg) /\ cfg.EnablePathsCache THEN TRUE ELSE e

\* the graphite.default-prefix of the query string, or the configured prefix
NoQuery == <<>>
getGraphitePrefix(cfg, q) == IF q # NoQuery THEN q ELSE cfg.DefaultPrefix

----------------------------------------------------------------------------
(* State *)

Reqs == {"r1"}

\* the samples of a write request: a metric and whether its value is a number
Samples == [Metric : Metrics, finite : {TRUE}] \cup {[Metric |-> MA, finite |-> FALSE]}

QueryPrefixes == {NoQuery, PrefixQ}

NoCall == [none |-> TRUE]

IdleReq == [pc |-> "idle"]

\* sync.RWMutex: the readers holding it and whether a writer waits for it
FreeLock == [readers |-> {}, writer |-> FALSE]

\* a handler that serves the request without taking the read lock
RLockSkipped(l, r) == l

RLock(l, r) == [l EXCEPT !.readers = @ \cup {r}]
RUnlock(l, r) == [l EXCEPT !.readers = @ \ {r}]
CanRLock(l) == ~l.writer
\* the lock that ApplyConfig takes without waiting for the readers
CanLockAlways(l) == TRUE
CanLock(l) == l.readers = {}

\* the record of one pathsFromMetric call
Call(res, m, prefix, cl, enabled, t) ==
    [m |-> m, prefix |-> prefix, rules |-> cl.cfg.Rules,
     templateData |-> cl.cfg.TemplateData, format |-> cl.format,
     gen |-> cl.gen, enabled |-> enabled, time |-> t,
     paths |-> res.paths, err |-> res.err, hit |-> res.hit, execs |-> res.execs,
     cacheCfg |-> cl.cfg.EnablePathsCache, order |-> RangeLabels(m),
     exp |-> IF enabled /\ Fingerprint(m) \in DOMAIN res.cache.items
             THEN res.cache.items[Fingerprint(m)].exp ELSE -1]

\* the goroutines that execute templates, and the patterns they ask for
Goroutines == {"g1", "g2"}
Patterns == {"a+", "b+", "("}

\* regexp.Compile: the compiled pattern, or an error for a malformed one
Compile(p) == IF p = "(" THEN [err |-> TRUE] ELSE [err |-> FALSE, re |-> p]

RexInit ==
    [pc |-> [g \in Goroutines |-> "idle"],
     m |-> [g \in Goroutines |-> ""],
     rx |-> [g \in Goroutines |-> [err |-> TRUE]],
     matchersMap |-> [p \in {} |-> Compile(p)],
     fatal |-> FALSE]

\* the write-side configuration of a client's carbon connection
CarbonConfig(transport, interval) ==
    [CarbonTransport |-> transport, CarbonReconnectInterval |-> interval]

\* no connection (a nil net.Conn)
NilConn == 0

\* NewClient: the connection fields of a new client; open and failed are the
\* connections that are open, and those a socket write failed on (ghost)
NewCarbon(transport, interval) ==
    [cfg |-> CarbonConfig(transport, interval), carbonCon |-> NilConn,
     carbonLastReconnectTime |-> 0, carbonConLock |-> "free", dials |-> 0,
     open |-> {}, failed |-> {}]

\* the goroutines that call Write on the client
Senders == {"w1", "w2"}

IdleSender == [pc |-> "idle"]

\* the callers of POST /-/reload
Posts == {"p1", "p2"}

\* the handler and the package state after main() has loaded cfg
BootHandler(cfg) ==
    /\ now = 0
    /\ pathsCache = InitPathsCache(cfg, NoCache)
    /\ pathsCacheEnabled = InitPathsCacheEnabled(cfg, FALSE)
    /\ hcfg = cfg
    /\ gen = 0
    /\ writer = NewClient(cfg, 0)
    /\ hlock = FreeLock
    /\ rl = [pc |-> "idle"]
    /\ req = [r \in Reqs |-> IdleReq]
    /\ last = NoCall
    /\ prev = NoCall
    /\ rex = RexInit
    /\ codec = [pc |-> "idle"]
    /\ parse = [pc |-> "idle"]
    /\ rd = [pc |-> "idle"]
    /\ iter = <<"owner", "env", "__name__">>
    /\ snd = [g \in Senders |-> IdleSender]
    /\ fd = [pc |-> "idle"]
    /\ reloadCh = <<>>
    /\ post = [p \in Posts |-> [pc |-> "idle"]]
    /\ rreq = [pc |-> "idle"]

\* the state after main() has loaded cfg: web.New and the first ApplyConfig
\* each build the client
Boot(cfg) ==
    /\ BootHandler(cfg)
    /\ cc = NewCarbon("tcp", 1)

Init == \E cfg \in FileConfigs : Boot(cfg)

----------------------------------------------------------------------------
(* Time and the cache janitor *)

Tick ==
    /\ now < MaxTime
    /\ now' = now + 1
    /\ UNCHANGED <<webVars, pathsCache, pathsCacheEnabled, hcfg, gen, writer, hlock, rl,
                   req, last, prev, rex, readVars, envVars>>

\* the janitor goroutine of the cache runs DeleteExpired
Purge ==
    /\ pathsCache # NoCache
    /\ pathsCache' = DeleteExpired(pathsCache, now)
    /\ pathsCache' # pathsCache
    /\ UNCHANGED <<webVars, now, pathsCacheEnabled, hcfg, gen, writer, hlock, rl, req,
                   last, prev, rex, readVars, envVars>>

----------------------------------------------------------------------------
(* Path generation called directly, as the package's tests call it *)

Generate(m, q) ==
    /\ writer # NoClient
    /\ \E res \in {pathsFromMetric(pathsCacheEnabled, pathsCache, now, m,
                                   writer.format, getGraphitePrefix(writer.cfg, q),
                                   writer.cfg.Rules, writer.cfg.TemplateData)} :
       LET prefix == getGraphitePrefix(writer.cfg, q)
       IN /\ pathsCache' = res.cache
          /\ last' = Call(res, m, prefix, writer, pathsCacheEnabled, now)
          /\ prev' = last
    /\ UNCHANGED <<webVars, now, pathsCacheEnabled, hcfg, gen, writer, hlock, rl, req, rex, readVars, envVars>>

----------------------------------------------------------------------------
(* Handler.write and Client.Write *)

\* Handler.write takes the read lock and parses the samples of the request
WriteBegin(r, q, ok) ==
    /\ req[r].pc = "idle"
    /\ CanRLock(hlock)
    /\ hlock' = RLock(hlock, r)
    /\ req' = [req EXCEPT ![r] =
                [pc |-> IF ok THEN "parsed" ELSE "respond", query |-> q,
                 reads |-> {}, status |-> IF ok THEN 200 ELSE 400,
                 n |-> 0, out |-> <<>>, client |-> NoClient, prefix |-> <<>>,
                 hprefix |-> <<>>, ignoredSamples |-> 0]]
    /\ UNCHANGED <<webVars, now, pathsCache, pathsCacheEnabled, hcfg, gen, writer, rl,
                   last, prev, rex, readVars, envVars>>

\* prefix := h.cfg.Graphite.StoragePrefixFromRequest(r)
HandlerPrefix(r) ==
    /\ req[r].pc = "parsed"
    /\ req' = [req EXCEPT ![r].pc = "prefixed",
                          ![r].hprefix = getGraphitePrefix(hcfg, req[r].query),
                          ![r].reads = @ \cup {gen}]
    /\ UNCHANGED <<webVars, now, pathsCache, pathsCacheEnabled, hcfg, gen, writer, hlock,
                   rl, last, prev, rex, readVars, envVars>>

\* for _, writer := range h.writers: one goroutine per writer
Dispatch(r) ==
    /\ req[r].pc = "prefixed"
    /\ req' = [req EXCEPT ![r].pc = IF writer = NoClient THEN "respond" ELSE "client",
                          ![r].client = writer,
                          ![r].reads = IF writer = NoClient THEN @ ELSE @ \cup {writer.gen}]
    /\ UNCHANGED <<webVars, now, pathsCache, pathsCacheEnabled, hcfg, gen, writer, hlock,
                   rl, last, prev, rex, readVars, envVars>>

\* Client.Write up to its loop over the samples
ClientWriteBegin(r) ==
    /\ req[r].pc = "client"
    /\ LET c == req[r].client IN
       req' = [req EXCEPT ![r].pc = IF c.cfg.CarbonAddress THEN "samples" ELSE "respond",
                          ![r].prefix = IF c.cfg.CarbonAddress
                                        THEN getGraphitePrefix(c.cfg, req[r].query)
                                        ELSE @,
                          ![r].reads = @ \cup {c.gen}]
    /\ UNCHANGED <<webVars, now, pathsCache, pathsCacheEnabled, hcfg, gen, writer, hlock,
                   rl, last, prev, rex, readVars, envVars>>

\* prepareDataPoint: the line of a path, or nothing for a NaN or infinite value
prepareDataPoint(path, s) ==
    IF ~s.finite THEN <<>> ELSE path \o <<" ", "1", " ", "0", "\n">>

\* the c.ignoredSamples.Inc() calls of prepareDataPoint for a sample: one
\* for each path of a sample whose value is not a number
ignoredIncs(paths, s) == IF ~s.finite THEN Len(paths) ELSE 0

RECURSIVE sampleLines(_, _)
sampleLines(paths, s) ==
    IF paths = <<>> THEN <<>>
    ELSE LET str == prepareDataPoint(Head(paths), s)
         IN (IF str # <<>> THEN <<str>> ELSE <<>>) \o sampleLines(Tail(paths), s)

\* one iteration of the loop of Client.Write over the samples; the sample is
\* the next one of the request's batch
WriteSample(r, s) ==
    /\ req[r].pc = "samples"
    /\ req[r].n < MaxBatch
    /\ \E res \in {pathsFromMetric(pathsCacheEnabled, pathsCache, now, s.Metric,
                                   req[r].client.format, req[r].prefix,
                                   req[r].client.cfg.Rules,
                                   req[r].client.cfg.TemplateData)} :
       LET c == req[r].client
       IN /\ pathsCache' = res.cache
          /\ req' = [req EXCEPT ![r].n = @ + 1,
                                ![r].reads = @ \cup {c.gen},
                                ![r].ignoredSamples = @ + ignoredIncs(res.paths, s),
                                ![r].out = Append(@, [sample |-> s, err |-> res.err,
                                                      hit |-> res.hit,
                                                      paths |-> res.paths,
                                                      calls |-> 1,
                                                      lines |-> sampleLines(res.paths, s)])]
    /\ UNCHANGED <<webVars, now, pathsCacheEnabled, hcfg, gen, writer, hlock, rl, last,
                   prev, rex, readVars, envVars>>

\* the end of the batch: the buffers are written to the carbon socket
SendBuffers(r, sent) ==
    /\ req[r].pc = "samples"
    /\ req[r].n > 0
    /\ req' = [req EXCEPT ![r].pc = "respond",
                          ![r].status = IF sent THEN 200 ELSE 500]
    /\ UNCHANGED <<webVars, now, pathsCache, pathsCacheEnabled, hcfg, gen, writer, hlock,
                   rl, last, prev, rex, readVars, envVars>>

\* Handler.write returns: the response is written and the read lock released
Respond(r) ==
    /\ req[r].pc = "respond"
    /\ hlock' = RUnlock(hlock, r)
    /\ req' = [req EXCEPT ![r] = IdleReq]
    /\ UNCHANGED <<webVars, now, pathsCache, pathsCacheEnabled, hcfg, gen, writer, rl,
                   last, prev, rex, readVars, envVars>>

----------------------------------------------------------------------------
(* Reload *)

\* the reload goroutine of main(): reload() has produced cfg and ApplyConfig
\* asks for the handler's lock
ReloadBegin(cfg) ==
    /\ rl.pc = "idle"
    /\ gen < MaxReloads
    /\ rl' = [pc |-> "lock", cfg |-> cfg]
    /\ hlock' = [hlock EXCEPT !.writer = TRUE]
    /\ UNCHANGED <<webVars, now, pathsCache, pathsCacheEnabled, hcfg, gen, writer, req,
                   last, prev, rex, readVars, envVars>>

\* ApplyConfig under the lock: the clients are shut down and rebuilt. The
\* SIGHUP branch of the reload goroutine then goes back to its select, the
\* branch of a reload request has rc <- nil to do
ApplyConfig ==
    /\ rl.pc = "lock"
    /\ CanLock(hlock)
    /\ hcfg' = rl.cfg
    /\ gen' = gen + 1
    /\ writer' = NewClient(rl.cfg, gen + 1)
    /\ pathsCache' = InitPathsCache(rl.cfg, pathsCache)
    /\ pathsCacheEnabled' = InitPathsCacheEnabled(rl.cfg, pathsCacheEnabled)
    /\ hlock' = FreeLock
    /\ rl' = IF "rc" \in DOMAIN rl
             THEN [pc |-> "reply", rc |-> rl.rc, err |-> FALSE]
             ELSE [pc |-> "idle"]
    /\ UNCHANGED <<webVars, now, req, last, prev, rex, readVars, envVars>>

----------------------------------------------------------------------------
(* Specifications *)

Next ==
    \/ \E r \in Reqs, q \in QueryPrefixes, ok \in BOOLEAN : WriteBegin(r, q, ok)
    \/ \E r \in Reqs : HandlerPrefix(r)
    \/ \E r \in Reqs : Dispatch(r)
    \/ \E r \in Reqs : ClientWriteBegin(r)
    \/ \E r \in Reqs, s \in Samples : WriteSample(r, s)
    \/ \E r \in Reqs, sent \in BOOLEAN : SendBuffers(r, sent)
    \/ \E r \in Reqs : Respond(r)
    \/ \E cfg \in FileConfigs : ReloadBegin(cfg)
    \/ ApplyConfig

Spec == Init /\ [][Next]_vars

\* the rule walk under every rule list of the bound
InitWalk == \E cfg \in WalkConfigs : Boot(cfg)

NextWalk == \E m \in Metrics, q \in QueryPrefixes : Generate(m, q)

SpecWalk == InitWalk /\ [][NextWalk]_vars

\* path generation over time and across reloads
NextCache ==
    \/ \E m \in Metrics : Generate(m, NoQuery)
    \/ \E cfg \in FileConfigs : ReloadBegin(cfg)
    \/ ApplyConfig
    \/ Tick
    \/ Purge

SpecCache == Init /\ [][NextCache]_vars

----------------------------------------------------------------------------
(* replaceRegex and rexGet: the process-wide map of compiled patterns.      *)
(* rexGet takes no lock; a map access of Go is not atomic, so each access   *)
(* is an interval with a begin and an end.                                  *)

\* goroutine g is inside a read or a write of matchersMap
InMapAccess(g) == rex.pc[g] \in {"reading", "writing"}

\* a map access of g overlaps a write of another goroutine, or g's write
\* overlaps another access: a data race on matchersMap
Races(g) ==
    /\ InMapAccess(g)
    /\ \E h \in Goroutines \ {g} :
          /\ InMapAccess(h)
          /\ "writing" \in {rex.pc[g], rex.pc[h]}

\* replaceRegex calls rexGet(m): the read of matchersMap[m] begins
RexGetBegin(g, p) ==
    /\ ~rex.fatal
    /\ rex.pc[g] = "idle"
    /\ rex' = [rex EXCEPT !.pc[g] = "reading", !.m[g] = p]
    /\ UNCHANGED <<webVars, now, pathsCache, pathsCacheEnabled, hcfg, gen, writer, hlock,
                   rl, req, last, prev, readVars, envVars>>

\* if r, ok := matchersMap[m]; ok { return r, nil }: the read ends. A read
\* that races with a write yields any outcome: the entry of any key, or none
RexGetRead(g) ==
    /\ ~rex.fatal
    /\ rex.pc[g] = "reading"
    /\ \/ /\ rex.m[g] \in DOMAIN rex.matchersMap
          /\ rex' = [rex EXCEPT !.pc[g] = "done", !.rx[g] = rex.matchersMap[rex.m[g]]]
       \/ /\ rex.m[g] \notin DOMAIN rex.matchersMap
          /\ rex' = [rex EXCEPT !.pc[g] = "compile"]
       \/ /\ Races(g)
          /\ \E p \in DOMAIN rex.matchersMap :
                rex' = [rex EXCEPT !.pc[g] = "done", !.rx[g] = rex.matchersMap[p]]
       \/ /\ Races(g)
          /\ rex' = [rex EXCEPT !.pc[g] = "compile"]
    /\ UNCHANGED <<webVars, now, pathsCache, pathsCacheEnabled, hcfg, gen, writer, hlock,
                   rl, req, last, prev, readVars, envVars>>

\* rx, err := regexp.Compile(m); on success the write of matchersMap[m] begins
RexGetCompile(g) ==
    /\ ~rex.fatal
    /\ rex.pc[g] = "compile"
    /\ LET c == Compile(rex.m[g]) IN
       rex' = [rex EXCEPT !.pc[g] = IF c.err THEN "done" ELSE "writing", !.rx[g] = c]
    /\ UNCHANGED <<webVars, now, pathsCache, pathsCacheEnabled, hcfg, gen, writer, hlock,
                   rl, req, last, prev, readVars, envVars>>

\* matchersMap[m] = rx: the write ends
RexGetStore(g) ==
    /\ ~rex.fatal
    /\ rex.pc[g] = "writing"
    /\ rex' = [rex EXCEPT !.pc[g] = "done",
                          !.matchersMap =
                              [p \in DOMAIN rex.matchersMap \cup {rex.m[g]} |->
                                  IF p = rex.m[g] THEN rex.rx[g] ELSE rex.matchersMap[p]]]
    /\ UNCHANGED <<webVars, now, pathsCache, pathsCacheEnabled, hcfg, gen, writer, hlock,
                   rl, req, last, prev, readVars, envVars>>

\* replaceRegex uses the result and the template goes on
RexGetReturn(g) ==
    /\ ~rex.fatal
    /\ rex.pc[g] = "done"
    /\ rex' = [rex EXCEPT !.pc[g] = "idle", !.m[g] = "", !.rx[g] = [err |-> TRUE]]
    /\ UNCHANGED <<webVars, now, pathsCache, pathsCacheEnabled, hcfg, gen, writer, hlock,
                   rl, req, last, prev, readVars, envVars>>

\* the runtime detects the concurrent map access and throws: the process dies
RexFatal ==
    /\ ~rex.fatal
    /\ \E g \in Goroutines : Races(g)
    /\ rex' = [rex EXCEPT !.fatal = TRUE]
    /\ UNCHANGED <<webVars, now, pathsCache, pathsCacheEnabled, hcfg, gen, writer, hlock,
                   rl, req, last, prev, readVars, envVars>>

NextRex ==
    \/ \E g \in Goroutines, p \in Patterns : RexGetBegin(g, p)
    \/ \E g \in Goroutines : RexGetRead(g)
    \/ \E g \in Goroutines : RexGetCompile(g)
    \/ \E g \in Goroutines : RexGetStore(g)
    \/ \E g \in Goroutines : RexGetReturn(g)
    \/ RexFatal

SpecRex == Init /\ [][NextRex]_vars

----------------------------------------------------------------------------
(* Escape and Unescape applied to the strings of a bounded alphabet *)

CodecAlphabet == {"a", "\\", "(", ".", "%", "0xC3", "0xA9"}

CodecInputs == SeqsUpTo(CodecAlphabet, MaxStr)

\* a caller escapes s
EscapeCall(s) ==
    /\ codec.pc = "idle"
    /\ codec' = [pc |-> "escaped", s |-> s, escaped |-> Escape(s)]
    /\ UNCHANGED <<webVars, envVars, writeVars, parse, rd>>

\* the caller unescapes what Escape returned
UnescapeCall ==
    /\ codec.pc = "escaped"
    /\ codec' = [pc |-> "unescaped", s |-> codec.s, escaped |-> codec.escaped,
                 unescaped |-> Unescape(codec.escaped)]
    /\ UNCHANGED <<webVars, envVars, writeVars, parse, rd>>

\* the caller is done with the value
CodecReturn ==
    /\ codec.pc = "unescaped"
    /\ codec' = [pc |-> "idle"]
    /\ UNCHANGED <<webVars, envVars, writeVars, parse, rd>>

NextCodec ==
    \/ \E s \in CodecInputs : EscapeCall(s)
    \/ UnescapeCall
    \/ CodecReturn

SpecCodec == Init /\ [][NextCodec]_vars

\* the characters the codec treats as significant
Significant == symbols \cup percentEncoded

\* every backslash of s is the last character or precedes a character that
\* is not significant, and s has a backslash
LoneBackslashes(s) ==
    /\ \E i \in 1..Len(s) : s[i] = "\\"
    /\ \A i \in 1..Len(s) :
          (s[i] = "\\" /\ i < Len(s)) => s[i + 1] \notin Significant

(* C12: Escape and Unescape are exact inverses: Unescape(Escape(s)) = s for *)
(* every string s, multi-byte characters and significant characters         *)
(* included.                                                                *)
C12_RoundTrip ==
    codec.pc = "unescaped" => codec.unescaped = codec.s

(* C20: a value whose backslashes are not followed by a significant         *)
(* character survives Escape then Unescape unchanged, also when a backslash *)
(* is its last character.                                                   *)
C20_LoneBackslashSurvives ==
    (codec.pc = "unescaped" /\ LoneBackslashes(codec.s)) => codec.unescaped = codec.s

\* a value that ends with a backslash, and has one before an ordinary
\* character, made the round trip
C20_Witness ==
    /\ codec.pc = "unescaped"
    /\ LoneBackslashes(codec.s)
    /\ Len(codec.s) = 3
    /\ codec.s[1] = "\\"
    /\ codec.s[3] = "\\"
    /\ codec.unescaped = codec.s

----------------------------------------------------------------------------
(* C7: the compiled-pattern cache is safe under concurrent rexGet calls: no *)
(* two goroutines access the map without synchronization (no access         *)
(* overlaps a write, the runtime never throws), and each caller gets the    *)
(* compiled form of the pattern it asked for.                               *)
C7_RexCacheSafe ==
    /\ ~rex.fatal
    /\ \A g \in Goroutines : ~Races(g)
    /\ \A g \in Goroutines :
          rex.pc[g] = "done" => rex.rx[g] = Compile(rex.m[g])


----------------------------------------------------------------------------
(* The write pipeline and reloads *)

\* C2: a request in flight while a reload happens reads its rules, template
\* data, prefix and format from exactly one configuration generation: every
\* read of the configuration it makes (the handler's prefix, the writer it is
\* dispatched to, the client's prefix, each sample's path generation) is of
\* the generation that was current when it began, and that generation stays
\* current until it ends.
C2_OneGenerationPerRequest ==
    \A r \in Reqs :
        req[r].pc # "idle" =>
            /\ Cardinality(req[r].reads) <= 1
            /\ req[r].reads \subseteq {gen}
            /\ req[r].client # NoClient => req[r].client = writer

\* a request has generated paths while a reload waits for the lock
C2_Witness ==
    \E r \in Reqs :
        /\ req[r].pc = "samples"
        /\ req[r].n >= 1
        /\ req[r].reads = {gen}
        /\ rl.pc = "lock"
        /\ rl.cfg # hcfg

\* the paths of the known prefixes and formats that are default paths of m
IsDefaultPath(path, m) ==
    \E f \in Formats, p \in {PrefixP, PrefixQ, PrefixR} : path = defaultPath(m, f, p)

StartsWith(s, p) == Len(s) >= Len(p) /\ SubSeq(s, 1, Len(p)) = p

\* C5: when a write request carries graphite.default-prefix=P, every default
\* path emitted for its samples starts with P, whatever earlier requests did.
C5_QueryPrefixOverrides ==
    \A r \in Reqs :
        (req[r].pc # "idle" /\ req[r].query # NoQuery) =>
            \A k \in DOMAIN req[r].out :
                \A i \in DOMAIN req[r].out[k].paths :
                    IsDefaultPath(req[r].out[k].paths[i], req[r].out[k].sample.Metric)
                        => StartsWith(req[r].out[k].paths[i], req[r].query)

\* C6: when path generation fails for a sample of a batch, the writer emits
\* no line for that sample (and goes on with the other samples).
C6_FailedSampleSkipped ==
    \A r \in Reqs :
        req[r].pc # "idle" =>
            \A k \in DOMAIN req[r].out :
                req[r].out[k].err => req[r].out[k].lines = <<>>

----------------------------------------------------------------------------
(* The path cache over time and across reloads *)

\* the entry call c left in the cache for its metric is unexpired at time t
Live(c, t) == c.enabled /\ (c.exp = 0 \/ (c.exp > 0 /\ t <= c.exp))

\* two path generations for the same metric, one right after the other
SameMetricTwice == prev # NoCall /\ last # NoCall /\ prev.m = last.m

C4_SecondCallFromCache ==
    (SameMetricTwice /\ prev.enabled /\ last.enabled /\ prev.gen = last.gen
        /\ Live(prev, last.time)) =>
        /\ last.paths = prev.paths
        /\ last.hit
        /\ ~last.err
        /\ last.execs = 0

\* the first call executed templates and stored its list, the second hit
C4_Witness ==
    /\ SameMetricTwice
    /\ prev.gen = last.gen
    /\ ~prev.hit
    /\ prev.execs > 0
    /\ prev.enabled
    /\ last.hit
    /\ last.paths = prev.paths

----------------------------------------------------------------------------
(* The rule walk: what the claims speak about *)

Matches(m, rule) == match(m, rule.Match, rule.MatchRE)

IsSilencing(rule) == rule.Continue = FALSE /\ rule.Tmpl = NoTmpl

Fails(m, rule, td) ==
    rule.Tmpl # NoTmpl /\ Execute(rule.Tmpl, loadContext(td, m)).err

Rendered(m, rule, td) == Execute(rule.Tmpl, loadContext(td, m)).out

\* the index of the first matching rule with continue=false, 0 if there is none
FirstTerminal(m, rules) ==
    LET T == {i \in 1..Len(rules) : Matches(m, rules[i]) /\ ~rules[i].Continue}
    IN IF T = {} THEN 0 ELSE CHOOSE i \in T : \A j \in T : i <= j

\* a matching rule before rule i fails to render
FailsBefore(m, rules, td, i) ==
    \E j \in 1..Len(rules) : j < i /\ Matches(m, rules[j]) /\ Fails(m, rules[j], td)

\* the rendered paths of the matching rules among rules[i..n], in rule order
RECURSIVE RenderedPaths(_, _, _, _, _)
RenderedPaths(m, rules, td, i, n) ==
    IF i > n THEN <<>>
    ELSE (IF Matches(m, rules[i]) THEN <<Rendered(m, rules[i], td)>> ELSE <<>>)
         \o RenderedPaths(m, rules, td, i + 1, n)

\* the latest call walked the rules of the active configuration
Walked == last # NoCall /\ ~last.hit

WalkRules == writer.cfg.Rules
WalkData == writer.cfg.TemplateData

----------------------------------------------------------------------------
(* C1: when the template of a matching rule fails, path generation returns  *)
(* an error and no path at all: neither the paths of earlier matching rules *)
(* nor the default path.                                                    *)
C1_ErrorReturnsNoPaths ==
    (last # NoCall /\ last.err) => last.paths = <<>>

----------------------------------------------------------------------------
(* C8 as stated: when the first matching terminal rule of a metric is a     *)
(* silencing rule, path generation returns an empty list with no error.     *)
C8_SilencingAsStated ==
    last # NoCall =>
        LET ft == FirstTerminal(last.m, WalkRules)
        IN (ft # 0 /\ IsSilencing(WalkRules[ft]))
               => (last.paths = <<>> /\ ~last.err)

(* C8 amended: when path generation walks the rules and the first matching  *)
(* terminal rule is a silencing rule, then if no matching rule before it    *)
(* fails to render the result is an empty list with no error (no default    *)
(* path and none of the paths of the earlier matching rules), and if a      *)
(* matching rule before it fails to render an error is returned.            *)
C8_SilencingReached ==
    Walked =>
        LET ft == FirstTerminal(last.m, WalkRules)
        IN (ft # 0 /\ IsSilencing(WalkRules[ft]))
               => IF FailsBefore(last.m, WalkRules, WalkData, ft)
                  THEN last.err
                  ELSE last.paths = <<>> /\ ~last.err

\* a silencing rule was reached after a continuing rule had rendered a path
C8_Witness ==
    /\ Walked
    /\ LET ft == FirstTerminal(last.m, WalkRules)
       IN /\ ft > 1
          /\ IsSilencing(WalkRules[ft])
          /\ ~FailsBefore(last.m, WalkRules, WalkData, ft)
          /\ Matches(last.m, WalkRules[1])
    /\ last.execs > 0
    /\ last.paths = <<>>

----------------------------------------------------------------------------
----------------------------------------------------------------------------
----------------------------------------------------------------------------
\* the first rule of the walk has continue=false and no match criteria
FirstRuleCatchAll ==
    /\ Len(WalkRules) >= 1
    /\ ~WalkRules[1].Continue
    /\ DOMAIN WalkRules[1].Match = {}
    /\ DOMAIN WalkRules[1].MatchRE = {}

(* C11 as stated: a rule with continue=false and empty match criteria placed *)
(* first suppresses output for every metric, whatever rules follow it.       *)
C11_CatchAllSuppresses ==
    (Walked /\ FirstRuleCatchAll) => last.paths = <<>>

(* C11 amended: a first rule with continue=false, empty match criteria and   *)
(* no template gives every metric an empty list with no error, whatever      *)
(* rules follow it; when that rule has a template, every metric gets exactly *)
(* the path the template renders (or the template's error and no path), and  *)
(* neither a later rule's path nor the default path.                         *)
C11_CatchAllFirst ==
    (Walked /\ FirstRuleCatchAll) =>
        IF WalkRules[1].Tmpl = NoTmpl
        THEN last.paths = <<>> /\ ~last.err
        ELSE IF Fails(last.m, WalkRules[1], WalkData)
        THEN last.paths = <<>> /\ last.err
        ELSE last.paths = <<Rendered(last.m, WalkRules[1], WalkData)>> /\ ~last.err

\* a silencing catch-all came first and a later rule matched the metric
C11_Witness ==
    /\ Walked
    /\ FirstRuleCatchAll
    /\ WalkRules[1].Tmpl = NoTmpl
    /\ Len(WalkRules) = 2
    /\ Matches(last.m, WalkRules[2])
    /\ WalkRules[2].Tmpl # NoTmpl
    /\ last.paths = <<>>

----------------------------------------------------------------------------
(* The path parser: MetricLabelsFromPath *)

\* strings.TrimPrefix
TrimPrefix(s, p) ==
    IF StartsWith(s, p) THEN SubSeq(s, Len(p) + 1, Len(s)) ELSE s

\* strings.Trim(s, "."): the dots at both ends are cut
RECURSIVE TrimDots(_)
TrimDots(s) ==
    IF s = <<>> THEN <<>>
    ELSE IF Head(s) = "." THEN TrimDots(Tail(s))
    ELSE IF s[Len(s)] = "." THEN TrimDots(SubSeq(s, 1, Len(s) - 1))
    ELSE s

\* strings.Split(s, "."): at least one node, the empty string for an empty s
RECURSIVE Split(_)
Split(s) ==
    LET dots == {i \in 1..Len(s) : s[i] = "."}
    IN IF dots = {} THEN <<s>>
       ELSE LET i == CHOOSE d \in dots : \A e \in dots : d <= e
            IN <<SubSeq(s, 1, i - 1)>> \o Split(SubSeq(s, i + 1, Len(s)))

Label(n, v) == [Name |-> n, Value |-> v]

\* the loop of MetricLabelsFromPath over the pairs of nodes, from node i
RECURSIVE pairLabels(_, _)
pairLabels(nodes, i) ==
    IF i > Len(nodes) THEN <<>>
    ELSE <<Label(Unescape(nodes[i]), Unescape(nodes[i + 1]))>>
         \o pairLabels(nodes, i + 2)

\* a parser that returns the labels it could pair when a node is left over
MetricLabelsFromPathGuess(path, prefix) ==
    LET nodes == Split(TrimDots(TrimPrefix(path, prefix)))
        even == IF (Len(nodes) - 1) % 2 # 0
                THEN SubSeq(nodes, 1, Len(nodes) - 1) ELSE nodes
    IN [err |-> (Len(nodes) - 1) % 2 # 0,
        labels |-> <<Label(LabelChars(MetricNameLabel), nodes[1])>>
                   \o pairLabels(even, 2)]

\* MetricLabelsFromPath: the labels, or an error and nil
MetricLabelsFromPath(path, prefix) ==
    LET nodes == Split(TrimDots(TrimPrefix(path, prefix)))
    IN IF (Len(nodes) - 1) % 2 # 0
       THEN [err |-> TRUE, labels |-> <<>>]
       ELSE [err |-> FALSE,
             labels |-> <<Label(LabelChars(MetricNameLabel), nodes[1])>>
                        \o pairLabels(nodes, 2)]

\* metrics with an empty label value and with a name that Escape changes
ME == [__name__ |-> <<"m">>, owner |-> <<>>]
MF == [__name__ |-> <<"a", "/", "b">>, owner |-> <<"X">>]

PathMetrics == Metrics \cup {ME, MF}

\* the nodes the paths of the storage backend are made of
NodePool == {<<"m">>, <<"a", "%", "2", "F", "b">>, <<"o", "w", "n", "e", "r">>,
             <<"X">>, <<"a", "%", "2", "E", "b">>}

RECURSIVE Join(_)
Join(ns) ==
    IF ns = <<>> THEN <<>>
    ELSE IF Len(ns) = 1 THEN ns[1]
    ELSE ns[1] \o Dot \o Join(Tail(ns))

NoMetric == [none |-> TRUE]

\* a writer generates the default path of m in the dotted format
GeneratePath(m, prefix) ==
    /\ parse.pc = "idle"
    /\ parse' = [pc |-> "path", m |-> m, nodes |-> <<>>, prefix |-> prefix,
                 path |-> defaultPath(m, FormatCarbon, prefix)]
    /\ UNCHANGED <<webVars, envVars, writeVars, codec, rd>>

\* the storage backend returns a path made of the nodes ns
BackendPath(ns, prefix) ==
    /\ parse.pc = "idle"
    /\ parse' = [pc |-> "path", m |-> NoMetric, nodes |-> ns, prefix |-> prefix,
                 path |-> prefix \o Join(ns)]
    /\ UNCHANGED <<webVars, envVars, writeVars, codec, rd>>

\* the reader parses the path with the same prefix
ParsePath ==
    /\ parse.pc = "path"
    /\ parse' = [pc |-> "parsed", m |-> parse.m, nodes |-> parse.nodes,
                 prefix |-> parse.prefix, path |-> parse.path,
                 res |-> MetricLabelsFromPath(parse.path, parse.prefix)]
    /\ UNCHANGED <<webVars, envVars, writeVars, codec, rd>>

ParseReturn ==
    /\ parse.pc = "parsed"
    /\ parse' = [pc |-> "idle"]
    /\ UNCHANGED <<webVars, envVars, writeVars, codec, rd>>

NextPath ==
    \/ \E m \in PathMetrics, prefix \in {PrefixP, PrefixR} : GeneratePath(m, prefix)
    \/ \E ns \in SeqsUpTo(NodePool, MaxNodes) \ {<<>>}, prefix \in {PrefixP, PrefixR} :
          BackendPath(ns, prefix)
    \/ ParsePath
    \/ ParseReturn

SpecPath == Init /\ [][NextPath]_vars

\* the name and the non-name labels of m, sorted by label name
RECURSIVE labelsOf(_, _)
labelsOf(m, ls) ==
    IF ls = <<>> THEN <<>>
    ELSE <<Label(LabelChars(Head(ls)), m[Head(ls)])>> \o labelsOf(m, Tail(ls))

MetricLabels(m) ==
    <<Label(LabelChars(MetricNameLabel), Lookup(m, MetricNameLabel))>>
    \o labelsOf(m, SortedLabels(m))

(* C13: in the dotted format, parsing the default path of a metric with the *)
(* prefix it was generated with recovers the name and every non-name label  *)
(* of the metric, empty values and values with dots included.               *)
C13_ParseGenerated ==
    (parse.pc = "parsed" /\ parse.m # NoMetric) =>
        /\ ~parse.res.err
        /\ parse.res.labels = MetricLabels(parse.m)

(* C14: the parser returns the first node after the prefix as the metric    *)
(* name in unescaped form: the name label is Unescape of node 0.            *)
C14_NameUnescaped ==
    (parse.pc = "parsed" /\ parse.m = NoMetric /\ ~parse.res.err) =>
        parse.res.labels[1] =
            Label(LabelChars(MetricNameLabel), Unescape(parse.nodes[1]))

(* C15: parsing a path with an odd number of nodes after the metric name    *)
(* returns an error and no label at all.                                    *)
C15_OddNodesRejected ==
    (parse.pc = "parsed" /\ parse.m = NoMetric /\ (Len(parse.nodes) - 1) % 2 # 0) =>
        /\ parse.res.err
        /\ parse.res.labels = <<>>

\* a path of a name, a pair and a node left over was parsed
C15_Witness ==
    /\ parse.pc = "parsed"
    /\ parse.m = NoMetric
    /\ Len(parse.nodes) = 2
    /\ parse.res.err
    /\ parse.res.labels = <<>>

----------------------------------------------------------------------------
(* The read path: Client.handleReadQuery *)

\* prompb.LabelMatcher; "UNKNOWN" stands for a type outside the four known
Matcher(n, t, v) == [Name |-> n, Type |-> t, Value |-> v]

KnownMatchTypes == {"EQ", "NEQ", "RE", "NRE"}

ReadQueries ==
    { <<Matcher("__name__", "EQ", <<"m">>)>>,
      <<Matcher("__name__", "EQ", <<"m">>), Matcher("owner", "EQ", <<"X">>)>>,
      <<Matcher("__name__", "EQ", <<"m">>), Matcher("owner", "UNKNOWN", <<"X">>)>>,
      <<Matcher("owner", "NEQ", <<"X">>)>> }

\* the paths the expand endpoint of the backend can return
TargetX == PrefixP \o <<"m", ".", "o", "w", "n", "e", "r", ".", "X">>
TargetY == PrefixP \o <<"m", ".", "o", "w", "n", "e", "r", ".", "Y">>
TargetOdd == PrefixP \o <<"m", ".", "o", "w", "n", "e", "r">>

TargetPool == {TargetX, TargetY, TargetOdd}
MalformedTargets == {TargetOdd}

\* the loop of queryToTargets: the value of the __name__ equality matcher
RECURSIVE queryName(_, _)
queryName(q, name) ==
    IF q = <<>> THEN name
    ELSE queryName(Tail(q),
                   IF Head(q).Name = MetricNameLabel /\ Head(q).Type = "EQ"
                   THEN Head(q).Value ELSE name)

\* labelMap[name]: the value of the parsed label, empty when it is absent
LabelValue(labels, name) ==
    LET L == {i \in DOMAIN labels : labels[i].Name = LabelChars(name)}
    IN IF L = {} THEN <<>>
       ELSE labels[CHOOSE i \in L : \A j \in L : j <= i].Value

\* matcher.Matches for the equality types (the queries use no regular expression)
MatcherMatches(m, v) ==
    CASE m.Type = "EQ" -> v = m.Value
      [] m.Type = "NEQ" -> v # m.Value
      [] OTHER -> FALSE

\* the loop of filterTargets over the matchers of the query for one target,
\* from matcher j: "keep", "drop", or what the labels package does with a
\* matcher of an unknown type (lib: "err" when NewMatcher rejects it, "panic"
\* when Matches panics on it)
RECURSIVE matchTarget(_, _, _, _)
matchTarget(q, labels, j, lib) ==
    IF j > Len(q) THEN "keep"
    ELSE IF q[j].Type \notin KnownMatchTypes THEN lib
    ELSE IF ~MatcherMatches(q[j], LabelValue(labels, q[j].Name)) THEN "drop"
    ELSE matchTarget(q, labels, j + 1, lib)

\* filterTargets that fails the query on a malformed target
RECURSIVE filterTargetsStrict(_, _, _, _)
filterTargetsStrict(q, targets, prefix, lib) ==
    IF targets = <<>> THEN [out |-> "ok", targets |-> <<>>]
    ELSE LET p == MetricLabelsFromPath(Head(targets), prefix)
             rest == filterTargetsStrict(q, Tail(targets), prefix, lib)
         IN IF p.err THEN [out |-> "err", targets |-> <<>>]
            ELSE LET o == matchTarget(q, p.labels, 1, lib)
                 IN IF o \in {"err", "panic"} THEN [out |-> o, targets |-> <<>>]
                    ELSE IF rest.out # "ok" THEN rest
                    ELSE IF o = "keep"
                    THEN [out |-> "ok", targets |-> <<Head(targets)>> \o rest.targets]
                    ELSE rest

\* filterTargets: the targets kept, or the error (or panic) that ends it
RECURSIVE filterTargets(_, _, _, _)
filterTargets(q, targets, prefix, lib) ==
    IF targets = <<>> THEN [out |-> "ok", targets |-> <<>>]
    ELSE LET p == MetricLabelsFromPath(Head(targets), prefix)
             rest == filterTargets(q, Tail(targets), prefix, lib)
         IN IF p.err THEN rest
            ELSE LET o == matchTarget(q, p.labels, 1, lib)
                 IN IF o \in {"err", "panic"} THEN [out |-> o, targets |-> <<>>]
                    ELSE IF rest.out # "ok" THEN rest
                    ELSE IF o = "keep"
                    THEN [out |-> "ok", targets |-> <<Head(targets)>> \o rest.targets]
                    ELSE rest

\* the target of a query in tags mode
SeriesByTag == <<"s", "e", "r", "i", "e", "s", "B", "y", "T", "a", "g">>

ReadDone(r, err) == [r EXCEPT !.pc = "done", !.err = err]

\* handleReadQuery up to the request to the backend: the time range, then
\* queryToTargetsWithTags or the first half of queryToTargets
ReadBegin(tags, q, inRange) ==
    /\ rd.pc = "idle"
    /\ LET r == [pc |-> "begin", tags |-> tags, query |-> q, err |-> FALSE,
                 expanded |-> FALSE, expand |-> <<>>, targets |-> <<>>,
                 pending |-> {}, render |-> <<>>, series |-> <<>>]
       IN rd' = IF ~inRange THEN ReadDone(r, FALSE)
                ELSE IF tags
                THEN IF \E j \in DOMAIN q : q[j].Type \notin KnownMatchTypes
                     THEN ReadDone(r, TRUE)
                     ELSE [r EXCEPT !.pc = "fetch", !.targets = <<SeriesByTag>>,
                                    !.pending = {1}, !.render = <<"none">>]
                ELSE IF queryName(q, <<>>) = <<>> THEN ReadDone(r, TRUE)
                ELSE [r EXCEPT !.pc = "expand"]
    /\ UNCHANGED <<webVars, envVars, writeVars, codec, parse>>

\* the second half of queryToTargets: the expand endpoint answers (or the
\* fetch fails) and filterTargets filters the targets it returned
ExpandResult(ok, ts, lib) ==
    /\ rd.pc = "expand"
    /\ LET f == filterTargets(rd.query, ts, PrefixP, lib)
       IN rd' = IF ~ok THEN ReadDone(rd, TRUE)
                ELSE IF f.out = "err"
                THEN ReadDone([rd EXCEPT !.expanded = TRUE, !.expand = ts], TRUE)
                ELSE IF f.out = "panic"
                THEN [rd EXCEPT !.pc = "panic", !.expanded = TRUE, !.expand = ts]
                ELSE [rd EXCEPT !.pc = "fetch", !.expanded = TRUE, !.expand = ts,
                                !.targets = f.targets,
                                !.pending = DOMAIN f.targets,
                                !.render = [i \in DOMAIN f.targets |-> "none"]]
    /\ UNCHANGED <<webVars, envVars, writeVars, codec, parse>>

\* a worker of fetchData takes target i: targetToTimeseries fetches the
\* render endpoint, which fails ("error"), answers with the series of the
\* target ("ok") or with a series whose path does not parse ("malformed");
\* the worker sends the series or logs the error
FetchTarget(i, answer) ==
    /\ rd.pc = "fetch"
    /\ i \in rd.pending
    /\ LET path == IF answer = "malformed" THEN TargetOdd ELSE rd.targets[i]
           p == IF rd.tags THEN [err |-> FALSE, labels |-> <<>>]
                ELSE MetricLabelsFromPath(path, PrefixP)
       IN rd' = [rd EXCEPT !.pending = @ \ {i},
                           !.render[i] = answer,
                           !.series = IF answer = "error" \/ p.err THEN @
                                      ELSE Append(@, [target |-> rd.targets[i],
                                                      labels |-> p.labels])]
    /\ UNCHANGED <<webVars, envVars, writeVars, codec, parse>>

\* every worker is done: fetchData returns and handleReadQuery with it
FetchEnd ==
    /\ rd.pc = "fetch"
    /\ rd.pending = {}
    /\ rd' = ReadDone(rd, FALSE)
    /\ UNCHANGED <<webVars, envVars, writeVars, codec, parse>>

\* Client.Read returns the result or the error (or the panic unwinds)
ReadReturn ==
    /\ rd.pc \in {"done", "panic"}
    /\ rd' = [pc |-> "idle"]
    /\ UNCHANGED <<webVars, envVars, writeVars, codec, parse>>

NextRead ==
    \/ \E tags \in BOOLEAN, q \in ReadQueries, inRange \in BOOLEAN :
          ReadBegin(tags, q, inRange)
    \/ \E ok \in BOOLEAN, ts \in SeqsUpTo(TargetPool, MaxTargets),
          lib \in {"err", "panic"} : ExpandResult(ok, ts, lib)
    \/ \E i \in 1..MaxTargets, answer \in {"error", "ok", "malformed"} :
          FetchTarget(i, answer)
    \/ FetchEnd
    \/ ReadReturn

SpecRead == Init /\ [][NextRead]_vars

\* the query has a matcher of an unknown type
HasUnknownMatcher(q) == \E j \in DOMAIN q : q[j].Type \notin KnownMatchTypes

\* the targets of the expand answer that are well formed and whose owner
\* label satisfies the query
Wanted(q, t) ==
    /\ t \notin MalformedTargets
    /\ \A j \in DOMAIN q :
          q[j].Name = "owner" =>
              MatcherMatches(q[j], IF t = TargetX THEN <<"X">> ELSE <<"Y">>)

\* the labels a well-formed target of the pool stands for
TargetLabels(t) ==
    <<Label(LabelChars(MetricNameLabel), <<"m">>),
      Label(LabelChars("owner"), IF t = TargetX THEN <<"X">> ELSE <<"Y">>)>>

(* C16: during a read a candidate target whose path is malformed is skipped: *)
(* it contributes no series, the other targets are still processed (each     *)
(* wanted target is fetched, and its series is in the result when its render *)
(* answer is good), and the query does not fail because of it.               *)
C16_MalformedTargetSkipped ==
    (rd.pc = "done" /\ ~rd.tags /\ rd.expanded /\ ~HasUnknownMatcher(rd.query)) =>
        /\ ~rd.err
        /\ \A k \in DOMAIN rd.series :
              /\ rd.series[k].target \notin MalformedTargets
              /\ rd.series[k].labels = TargetLabels(rd.series[k].target)
        /\ \A i \in DOMAIN rd.expand :
              Wanted(rd.query, rd.expand[i]) =>
                  \E j \in DOMAIN rd.targets : rd.targets[j] = rd.expand[i]
        /\ \A j \in DOMAIN rd.targets :
              /\ rd.targets[j] \notin MalformedTargets
              /\ rd.render[j] = "ok" =>
                    \E k \in DOMAIN rd.series : rd.series[k].target = rd.targets[j]

\* a malformed target came first, and the series of the target after it is
\* in the result
C16_Witness ==
    /\ rd.pc = "done"
    /\ ~rd.tags
    /\ ~rd.err
    /\ Len(rd.expand) = 2
    /\ rd.expand[1] \in MalformedTargets
    /\ rd.expand[2] = TargetX
    /\ Len(rd.series) = 1
    /\ rd.series[1].target = TargetX

(* C17: a read query with a label matcher of an unknown type always fails    *)
(* with an error, whatever targets the backend returns (none included).      *)
C17_UnknownMatcherFails ==
    (rd.pc = "done" /\ HasUnknownMatcher(rd.query)) => rd.err

----------------------------------------------------------------------------
(* Samples whose value is NaN or infinite on the write path. In a request's  *)
(* out[k], calls is the number of pathsFromMetric calls Client.Write made    *)
(* for the sample, and ignoredSamples counts the increments of the client's  *)
(* ignored-samples counter during the request.                               *)

NonFinite(out) == {k \in DOMAIN out : ~out[k].sample.finite}

(* C18: path generation, and therefore the path cache, is never invoked for  *)
(* a sample whose value is NaN or infinite.                                  *)
C18_NoGenerationForNaN ==
    \A r \in Reqs :
        req[r].pc # "idle" =>
            \A k \in NonFinite(req[r].out) : req[r].out[k].calls = 0

(* C19: a sample whose value is NaN or infinite produces no line, and the    *)
(* drop of every such sample is recorded in the ignored-samples counter,     *)
(* whichever rules match its metric.                                         *)
C19_DropsCounted ==
    \A r \in Reqs :
        req[r].pc # "idle" =>
            /\ \A k \in NonFinite(req[r].out) : req[r].out[k].lines = <<>>
            /\ req[r].ignoredSamples = Cardinality(NonFinite(req[r].out))

----------------------------------------------------------------------------
(* The default path under every iteration order of the label map *)

\* the orders in which a range over a metric's labels can yield them
Orders ==
    {o \in [1..Len(LabelOrder) -> {LabelOrder[i] : i \in DOMAIN LabelOrder}] :
        \A i, j \in DOMAIN o : i # j => o[i] # o[j]}

\* configurations without rules
OrderConfigs ==
    { Config(<<>>, <<>>, PrefixP, tags, tags /\ om, cache, 1, TRUE, TRUE) :
        tags \in BOOLEAN, om \in BOOLEAN, cache \in BOOLEAN }

\* the runtime picks another iteration order for the next range over a map
Shuffle(o) ==
    /\ iter # o
    /\ iter' = o
    /\ UNCHANGED <<webVars, writeVars, readVars, cc, snd, fd>>

InitOrder == \E cfg \in OrderConfigs : Boot(cfg)

NextOrder ==
    \/ \E m \in Metrics, q \in QueryPrefixes : Generate(m, q)
    \/ \E o \in Orders : Shuffle(o)

SpecOrder == InitOrder /\ [][NextOrder]_vars

\* the labels of m other than the name, in the order of their names
InNameOrder(m) ==
    SelectSeq(LabelOrder, LAMBDA l : l \in DOMAIN m /\ l # MetricNameLabel)

\* the default path whose labels are in the order of their names
NameOrderPath(m, format, prefix) ==
    LET lbuffer == labelBuffer(m, format, InNameOrder(m), TRUE)
        buffer == prefix \o Escape(Lookup(m, MetricNameLabel))
    IN IF lbuffer = <<>> THEN buffer
       ELSE IF format = FormatCarbonOpenMetrics
       THEN buffer \o <<"{">> \o lbuffer \o <<"}">>
       ELSE buffer \o lbuffer

\* C21: with no rules, two calls of path generation with the same metric and
\* prefix both return the same list of one path, the default path with the
\* labels in the order of their names, whatever order the map was ranged in
\* (the prefix of the path is the one of the call that computed it).
C21_DefaultPathDeterministic ==
    (SameMetricTwice /\ prev.prefix = last.prefix
        /\ prev.rules = <<>> /\ last.rules = <<>>) =>
        /\ ~prev.err /\ ~last.err
        /\ last.paths = prev.paths
        /\ \E p \in {PrefixP, PrefixQ} :
               last.paths = <<NameOrderPath(last.m, last.format, p)>>

\* two walks (no cache hit) of the same metric with two labels, ranged over
\* in two different orders
C21_Witness ==
    /\ SameMetricTwice /\ prev.prefix = last.prefix
    /\ last.rules = <<>> /\ prev.rules = <<>>
    /\ last.m = MB /\ ~last.hit /\ ~prev.hit
    /\ prev.order # last.order
    /\ SelectSeq(last.order, LAMBDA l : l # MetricNameLabel) # InNameOrder(MB)

----------------------------------------------------------------------------
(* Errors and the cache *)

\* C29: with the cache enabled, a call of path generation for a metric whose
\* previous call failed under the same rules fails again: it never returns a
\* cached list of paths without an error.
C29_ErrorNotCached ==
    (SameMetricTwice /\ prev.enabled /\ last.enabled /\ prev.err
        /\ prev.rules = last.rules /\ prev.templateData = last.templateData) =>
        last.err /\ ~last.hit

\* C30: a call of path generation under a configuration that does not enable
\* the paths cache neither reads the cache nor writes to it.
C30_CacheOnlyWhenEnabled ==
    (last # NoCall /\ ~last.cacheCfg) => (~last.enabled /\ ~last.hit)

----------------------------------------------------------------------------
(* Client.Write on the carbon socket: the buffers and the connection *)

udpMaxBytes == 1024

\* the lengths in bytes of the lines prepareDataPoint returns
LineLens == {600, 1100}

\* the lines of a batch, by their lengths
LineBatches == SeqsUpTo(LineLens, MaxLines)

\* one line added to the buffers: with udp a new buffer is started when the
\* line does not fit into the current one
appendLine(bufs, n, transport) ==
    IF transport = "udp" /\ bufs[Len(bufs)] + n > udpMaxBytes
    THEN Append(bufs, n)
    ELSE [bufs EXCEPT ![Len(bufs)] = @ + n]

\* bytesBuffers after the loop of Client.Write over the samples
RECURSIVE bytesBuffers(_, _, _)
bytesBuffers(lines, bufs, transport) ==
    IF lines = <<>> THEN bufs
    ELSE bytesBuffers(Tail(lines), appendLine(bufs, Head(lines), transport), transport)

\* disconnectFromCarbon: the connection is closed and forgotten
disconnectFromCarbon(c) ==
    [c EXCEPT !.open = @ \ {c.carbonCon}, !.carbonCon = NilConn]

\* net.DialTimeout and what connectToCarbon does with its result; age is
\* the age of the connection that was replaced (-1: there was none)
dial(c, t, dialOk, age) ==
    IF dialOk
    THEN [c |-> [c EXCEPT !.carbonCon = c.dials + 1, !.dials = @ + 1,
                          !.carbonLastReconnectTime = t,
                          !.open = @ \cup {c.dials + 1}],
          err |-> FALSE, reused |-> FALSE, age |-> age]
    ELSE [c |-> [c EXCEPT !.carbonCon = NilConn],
          err |-> TRUE, reused |-> FALSE, age |-> age]

\* connectToCarbon dialing again without closing the connection it replaces
connectToCarbonLeak(c, t, dialOk) ==
    IF c.carbonCon # NilConn
    THEN IF t - c.carbonLastReconnectTime < c.cfg.CarbonReconnectInterval
         THEN [c |-> c, err |-> FALSE, reused |-> TRUE,
               age |-> t - c.carbonLastReconnectTime]
         ELSE dial(c, t, dialOk, t - c.carbonLastReconnectTime)
    ELSE dial(c, t, dialOk, -1)

\* connectToCarbon: the client after the call, the error, and whether the
\* existing connection was reused (and how old it was)
connectToCarbon(c, t, dialOk) ==
    IF c.carbonCon # NilConn
    THEN IF t - c.carbonLastReconnectTime < c.cfg.CarbonReconnectInterval
         THEN [c |-> c, err |-> FALSE, reused |-> TRUE,
               age |-> t - c.carbonLastReconnectTime]
         ELSE dial(disconnectFromCarbon(c), t, dialOk,
                   t - c.carbonLastReconnectTime)
    ELSE dial(c, t, dialOk, -1)

\* a failed conn.Write that leaves the connection in place
socketWriteKeep(c, ok) ==
    IF ok THEN c ELSE [c EXCEPT !.failed = @ \cup {c.carbonCon}]

\* conn.Write(buf.Bytes()) and the disconnect that follows its failure
socketWrite(c, ok) ==
    IF ok THEN c
    ELSE disconnectFromCarbon([c EXCEPT !.failed = @ \cup {c.carbonCon}])

\* Client.Write up to the lock: the lines of the batch are put into buffers
WriteCall(g, lines) ==
    /\ snd[g].pc = "idle"
    /\ snd' = [snd EXCEPT ![g] =
                [pc |-> "buffered",
                 bufs |-> bytesBuffers(lines, <<0>>, cc.cfg.CarbonTransport),
                 i |-> 1, err |-> FALSE, con |-> NilConn,
                 reused |-> FALSE, age |-> -1]]
    /\ UNCHANGED <<webVars, writeVars, readVars, iter, cc, fd>>

\* c.carbonConLock.Lock()
LockConn(g) ==
    /\ snd[g].pc = "buffered"
    /\ cc.carbonConLock = "free"
    /\ cc' = [cc EXCEPT !.carbonConLock = g]
    /\ snd' = [snd EXCEPT ![g].pc = "locked"]
    /\ UNCHANGED <<webVars, writeVars, readVars, iter, fd>>

\* one iteration of the loop over the buffers: connect, then write the buffer
SendBuf(g, dialOk, writeOk) ==
    /\ snd[g].pc = "locked"
    /\ LET r == connectToCarbon(cc, now, dialOk)
           w == socketWrite(r.c, writeOk)
           o == snd[g]
           failed == r.err \/ ~writeOk
       IN /\ r.c.dials <= MaxConns
          /\ cc' = IF r.err THEN r.c ELSE w
          /\ snd' = [snd EXCEPT ![g] =
                [pc |-> IF failed \/ o.i = Len(o.bufs) THEN "deferred" ELSE "locked",
                 bufs |-> o.bufs,
                 i |-> IF failed THEN o.i ELSE o.i + 1,
                 err |-> failed,
                 con |-> r.c.carbonCon,
                 reused |-> r.reused,
                 age |-> r.age]]
    /\ UNCHANGED <<webVars, writeVars, readVars, iter, fd>>

\* Write returns: defer c.carbonConLock.Unlock()
UnlockConn(g) ==
    /\ snd[g].pc = "deferred"
    /\ cc' = [cc EXCEPT !.carbonConLock = "free"]
    /\ snd' = [snd EXCEPT ![g] = [pc |-> "returned", err |-> snd[g].err]]
    /\ UNCHANGED <<webVars, writeVars, readVars, iter, fd>>

\* the handler asks the client for its Target: c.carbonCon is read
TargetBegin(g) ==
    /\ snd[g].pc = "returned"
    /\ snd' = [snd EXCEPT ![g].pc = "target"]
    /\ UNCHANGED <<webVars, writeVars, readVars, iter, cc, fd>>

TargetEnd(g) ==
    /\ snd[g].pc = "target"
    /\ snd' = [snd EXCEPT ![g] = IdleSender]
    /\ UNCHANGED <<webVars, writeVars, readVars, iter, cc, fd>>

\* Client.Shutdown: the connection is closed under the lock
Shutdown ==
    /\ cc.carbonConLock = "free"
    /\ cc.carbonCon # NilConn
    /\ cc' = disconnectFromCarbon(cc)
    /\ UNCHANGED <<webVars, writeVars, readVars, iter, snd, fd>>

InitConn ==
    \E tr \in {"udp", "tcp"}, iv \in {1}, cfg \in OrderConfigs :
        /\ BootHandler(cfg)
        /\ cfg.EnableTags /\ cfg.EnablePathsCache /\ cfg.UseOpenMetricsFormat
        /\ cc = NewCarbon(tr, iv)

NextConn ==
    \/ \E g \in Senders, lines \in LineBatches : WriteCall(g, lines)
    \/ \E g \in Senders : LockConn(g)
    \/ \E g \in Senders, dialOk \in BOOLEAN, writeOk \in BOOLEAN :
            SendBuf(g, dialOk, writeOk)
    \/ \E g \in Senders : UnlockConn(g)
    \/ \E g \in Senders : TargetBegin(g)
    \/ \E g \in Senders : TargetEnd(g)
    \/ Shutdown
    \/ Tick

SpecConn == InitConn /\ [][NextConn]_vars

\* the buffers a Write call has written to the socket so far
SentBufs(g) ==
    IF snd[g].pc \in {"locked", "deferred"}
    THEN {snd[g].bufs[k] : k \in 1..(snd[g].i - 1)} ELSE {}

\* C22: with the udp transport every buffer a Write call sends is at most
\* 1024 bytes long.
C22_DatagramBound ==
    cc.cfg.CarbonTransport = "udp" =>
        \A g \in Senders : \A b \in SentBufs(g) : b <= udpMaxBytes

\* goroutine g is reading or changing c.carbonCon
InConnAccess(g) == snd[g].pc \in {"locked", "deferred", "target"}

\* C23: a goroutine reads or changes the carbon connection of the client only
\* while it holds carbonConLock.
C23_ConnUnderLock ==
    \A g \in Senders : InConnAccess(g) => cc.carbonConLock = g

\* goroutine g is inside the locked part of Write
InWrite(g) == snd[g].pc \in {"locked", "deferred"}

\* C27: when Write returns an error after a failed dial or a failed socket
\* write the client holds no connection, and a connection a write has failed
\* on is never the client's connection again: the next Write dials a new one.
C27_FailureDropsConnection ==
    /\ \A g \in Senders :
          (snd[g].pc = "deferred" /\ snd[g].err) => cc.carbonCon = NilConn
    /\ cc.carbonCon \notin cc.failed
    /\ \A g \in Senders :
          (InWrite(g) /\ ~snd[g].err /\ snd[g].con # NilConn) =>
              snd[g].con \in cc.open \ cc.failed

\* a Write that succeeds on a new connection after a socket write has failed
C27_Witness ==
    \E g \in Senders :
        /\ snd[g].pc = "deferred" /\ ~snd[g].err
        /\ cc.failed # {} /\ snd[g].con # NilConn /\ ~snd[g].reused

\* C28: the client has at most one open connection, the one it holds; a
\* connection is reused only while it is younger than the reconnect interval
\* and is replaced (closed, then a new one dialed) only when it is not.
C28_OneConnection ==
    /\ cc.open = IF cc.carbonCon = NilConn THEN {} ELSE {cc.carbonCon}
    /\ \A g \in Senders : InWrite(g) =>
          /\ snd[g].reused => snd[g].age < cc.cfg.CarbonReconnectInterval
          /\ (~snd[g].reused /\ snd[g].age >= 0) =>
                 snd[g].age >= cc.cfg.CarbonReconnectInterval

\* a Write has replaced a connection that was too old, and the other
\* goroutine's Write waits for the lock
C28_Witness ==
    \E g, h \in Senders :
        /\ InWrite(g) /\ ~snd[g].reused /\ snd[g].age >= 1
        /\ snd[g].con # NilConn /\ cc.open = {snd[g].con}
        /\ snd[h].pc = "buffered"

----------------------------------------------------------------------------
(* Client.fetchData: the workers, the two channels and the result.          *)
(* The source starts maxFetchWorkers = 10 workers; the model starts         *)
(* MaxWorkers of them and feeds up to MaxFetchTargets targets.              *)

\* what targetToTimeseries returns for a target: an error, or so many series
FetchError == -1
TargetAnswers == {FetchError} \cup (0..MaxSeries)

\* a target no worker has asked Graphite for yet
Unfetched == FetchError - 1

\* cap(output) == len(targets)+1
outputCap(targets) == Len(targets) + 1

\* the end-of-data mark the closing goroutine sends
NilSeries == <<0, 0>>

\* a worker goroutine: waiting on the input, sending series k of target t,
\* or out of its loop (wg.Done). The workers run the same closure and have
\* no identity, so they are kept as a bag of such states.
Receiving == [pc |-> "recv", t |-> 0, k |-> 0]
Sending(t, k) == [pc |-> "send", t |-> t, k |-> k]
Left == [pc |-> "done", t |-> 0, k |-> 0]
SendStates == {Sending(t, k) : t \in 1..MaxFetchTargets, k \in 1..MaxSeries}
StartWorkers == [s \in {Receiving} |-> MaxWorkers]
Move(w, from, to) == (w (-) SetToBag({from})) (+) SetToBag({to})

\* the closing goroutine that does not wait for the workers
AllDoneSkipped(w) == TRUE

\* wg.Wait() returns: every worker has left its loop
AllDone(w) == BagToSet(w) \subseteq {Left}

\* fetchData makes the channels and starts the workers
FetchBegin(n) ==
    /\ fd.pc = "idle"
    /\ fd' = [pc |-> "feeding", targets |-> [t \in 1..n |-> Unfetched], fed |-> 0,
              input |-> <<>>, closed |-> FALSE, output |-> <<>>,
              w |-> StartWorkers, closer |-> "none", got |-> {}, n |-> 0]
    /\ UNCHANGED <<webVars, writeVars, readVars, iter, cc, snd>>

\* input <- target: the channel holds every target, the send never blocks
Feed ==
    /\ fd.pc = "feeding"
    /\ fd.fed < Len(fd.targets)
    /\ Len(fd.input) < Len(fd.targets)
    /\ fd' = [fd EXCEPT !.fed = @ + 1, !.input = Append(@, fd.fed + 1)]
    /\ UNCHANGED <<webVars, writeVars, readVars, iter, cc, snd>>

\* close(input), and the goroutine that closes the output is started
CloseInput ==
    /\ fd.pc = "feeding"
    /\ fd.fed = Len(fd.targets)
    /\ fd' = [fd EXCEPT !.pc = "reading", !.closed = TRUE, !.closer = "waiting"]
    /\ UNCHANGED <<webVars, writeVars, readVars, iter, cc, snd>>

\* for target := range input: a worker takes a target and fetches it
\* (targetToTimeseries answers with an error or with some series), or leaves
\* the loop when the channel is closed and empty
WorkerRecv ==
    /\ fd.pc \in {"feeding", "reading"}
    /\ BagIn(Receiving, fd.w)
    /\ \/ /\ fd.input # <<>>
          /\ \E a \in TargetAnswers :
               LET t == Head(fd.input)
               IN fd' = [fd EXCEPT !.input = Tail(@),
                                   !.targets[t] = a,
                                   !.w = IF a = FetchError \/ a = 0 THEN @
                                         ELSE Move(@, Receiving, Sending(t, 1))]
       \/ /\ fd.input = <<>> /\ fd.closed
          /\ fd' = [fd EXCEPT !.w = Move(@, Receiving, Left)]
    /\ UNCHANGED <<webVars, writeVars, readVars, iter, cc, snd>>

\* output <- t: the worker sends the next series of its target
WorkerSend(s) ==
    /\ fd.pc \in {"feeding", "reading"}
    /\ BagIn(s, fd.w)
    /\ Len(fd.output) < outputCap(fd.targets)
    /\ fd' = [fd EXCEPT !.output = Append(@, <<s.t, s.k>>),
                        !.w = Move(@, s, IF s.k = fd.targets[s.t] THEN Receiving
                                         ELSE Sending(s.t, s.k + 1))]
    /\ UNCHANGED <<webVars, writeVars, readVars, iter, cc, snd>>

\* wg.Wait(); output <- nil; close(output)
CloseOutput ==
    /\ fd.pc = "reading"
    /\ fd.closer = "waiting"
    /\ AllDone(fd.w)
    /\ Len(fd.output) < outputCap(fd.targets)
    /\ fd' = [fd EXCEPT !.output = Append(@, NilSeries), !.closer = "done"]
    /\ UNCHANGED <<webVars, writeVars, readVars, iter, cc, snd>>

\* ts := <-output: a series is appended to the result, nil ends the loop
ReadOutput ==
    /\ fd.pc = "reading"
    /\ fd.output # <<>>
    /\ LET ts == Head(fd.output)
       IN fd' = IF ts = NilSeries
                THEN [fd EXCEPT !.output = Tail(@), !.pc = "returned"]
                ELSE [fd EXCEPT !.output = Tail(@), !.got = @ \cup {ts},
                                !.n = @ + 1]
    /\ UNCHANGED <<webVars, writeVars, readVars, iter, cc, snd>>

\* the caller takes the result
FetchReturn ==
    /\ fd.pc = "returned"
    /\ fd' = [pc |-> "idle"]
    /\ UNCHANGED <<webVars, writeVars, readVars, iter, cc, snd>>

\* the steps of one fetchData call
FetchStep ==
    \/ Feed
    \/ CloseInput
    \/ WorkerRecv
    \/ \E s \in SendStates : WorkerSend(s)
    \/ CloseOutput
    \/ ReadOutput

NextFetch ==
    \/ \E n \in 0..MaxFetchTargets : FetchBegin(n)
    \/ FetchStep
    \/ FetchReturn

\* while a goroutine of the call can take a step, one of them eventually does
SpecFetch ==
    Init /\ [][NextFetch]_vars /\ WF_vars(FetchStep)

\* every series of every target that was fetched without an error
Fetched(targets) ==
    {<<t, k>> \in (DOMAIN targets) \X (1..MaxSeries) :
        targets[t] \notin {FetchError, Unfetched} /\ k <= targets[t]}

----------------------------------------------------------------------------
(* Reloads against requests in flight *)

\* the reader of the lock that is the /read request
ReadReq == "rd"

\* Shutdown was called on the client: ApplyConfig shuts the clients down when
\* it builds those of the next configuration
IsShutDown(c) == c # NoClient /\ c.gen < gen

\* Handler.read takes the read lock and decodes the request; the status of
\* its response is left out
ReadReqBegin(ok) ==
    /\ rreq.pc = "idle"
    /\ CanRLock(hlock)
    /\ hlock' = RLock(hlock, ReadReq)
    /\ rreq' = [pc |-> IF ok THEN "decoded" ELSE "respond", reader |-> NoClient]
    /\ UNCHANGED <<now, pathsCache, pathsCacheEnabled, hcfg, gen, writer, rl, req,
                   last, prev, rex, readVars, envVars, reloadCh, post>>

\* reader := h.readers[0], or a 500 when there is not exactly one reader
ReadReqReader ==
    /\ rreq.pc = "decoded"
    /\ rreq' = IF writer = NoClient
               THEN [rreq EXCEPT !.pc = "respond"]
               ELSE [rreq EXCEPT !.pc = "reading", !.reader = writer]
    /\ UNCHANGED <<writeVars, readVars, envVars, reloadCh, post>>

\* reader.Read returns, and reader.Target() labels the metrics of the request
ReadReqRead ==
    /\ rreq.pc = "reading"
    /\ rreq' = [rreq EXCEPT !.pc = "respond"]
    /\ UNCHANGED <<writeVars, readVars, envVars, reloadCh, post>>

\* Handler.read returns: the response is written and the read lock released
ReadReqRespond ==
    /\ rreq.pc = "respond"
    /\ hlock' = RUnlock(hlock, ReadReq)
    /\ rreq' = [pc |-> "idle"]
    /\ UNCHANGED <<now, pathsCache, pathsCacheEnabled, hcfg, gen, writer, rl, req,
                   last, prev, rex, readVars, envVars, reloadCh, post>>

\* the status Handler.reload answers with for what it got from rc
ReloadStatusOK(err) == 200
ReloadStatus(err) == IF err THEN 500 ELSE 200

\* a reload request that waits to hand over its channel; responses counts
\* the responses written for it, from and to are the configuration generations
\* when the reload goroutine took the request and when it answered (ghost)
NewPost ==
    [pc |-> "send", responses |-> 0, reloaded |-> FALSE, status |-> 0,
     from |-> 0, to |-> 0]

\* Handler.reload: rc := make(chan error); h.reloadCh <- rc blocks until the
\* reload goroutine receives, behind the handlers already blocked there
PostReload(p) ==
    /\ post[p].pc \in {"idle", "done"}
    /\ post' = [post EXCEPT ![p] = NewPost]
    /\ reloadCh' = Append(reloadCh, p)
    /\ UNCHANGED <<writeVars, readVars, envVars, rreq>>

\* case rc := <-webHandler.Reload(): the goroutine takes the channel of the
\* first blocked handler and runs reload(); an error is to be sent back, a
\* configuration is handed to ApplyConfig, which asks for the handler's lock
LoopRecv(ok, cfg) ==
    /\ rl.pc = "idle"
    /\ reloadCh # <<>>
    /\ ok => gen < MaxReloads
    /\ LET p == Head(reloadCh)
       IN /\ reloadCh' = Tail(reloadCh)
          /\ post' = [post EXCEPT ![p] = [@ EXCEPT !.pc = "wait", !.reloaded = ok,
                                                  !.from = gen]]
          /\ rl' = IF ok THEN [pc |-> "lock", cfg |-> cfg, rc |-> p]
                   ELSE [pc |-> "reply", rc |-> p, err |-> TRUE]
          /\ hlock' = IF ok THEN [hlock EXCEPT !.writer = TRUE] ELSE hlock
    /\ UNCHANGED <<now, pathsCache, pathsCacheEnabled, hcfg, gen, writer, req,
                   last, prev, rex, readVars, envVars, rreq>>

\* rc <- err meets the <-rc of the handler that made rc, and Handler.reload
\* writes its response: a 500 for an error, a 200 otherwise
LoopReply ==
    /\ rl.pc = "reply"
    /\ post[rl.rc].pc = "wait"
    /\ post' = [post EXCEPT ![rl.rc] = [@ EXCEPT !.pc = "done",
                                                 !.status = ReloadStatus(rl.err),
                                                 !.responses = @ + 1,
                                                 !.to = gen]]
    /\ rl' = [pc |-> "idle"]
    /\ UNCHANGED <<now, pathsCache, pathsCacheEnabled, hcfg, gen, writer, hlock,
                   req, last, prev, rex, readVars, envVars, reloadCh, rreq>>

\* the sample of the write requests made during reloads, and the
\* configuration on disk then: no rules and no cache, a carbon address and a
\* read URL
ReloadSample == [Metric |-> MA, finite |-> TRUE]
ReloadConfigs ==
    { Config(<<>>, <<>>, PrefixP, FALSE, FALSE, FALSE, 1, TRUE, TRUE) }

\* the steps of a /write request and of a /read request once they have begun,
\* and those of the reload goroutine
WriteSteps ==
    \E r \in Reqs :
        \/ HandlerPrefix(r)
        \/ Dispatch(r)
        \/ ClientWriteBegin(r)
        \/ WriteSample(r, ReloadSample)
        \/ SendBuffers(r, TRUE)
        \/ Respond(r)

ReadSteps ==
    \/ ReadReqReader
    \/ ReadReqRead
    \/ ReadReqRespond

LoopSteps ==
    \/ \E ok \in BOOLEAN, cfg \in ReloadConfigs : LoopRecv(ok, cfg)
    \/ ApplyConfig
    \/ LoopReply

NextReload ==
    \/ \E r \in Reqs : WriteBegin(r, NoQuery, TRUE)
    \/ WriteSteps
    \/ \E ok \in BOOLEAN : ReadReqBegin(ok)
    \/ ReadSteps
    \/ \E cfg \in ReloadConfigs : ReloadBegin(cfg)
    \/ \E p \in Posts : PostReload(p)
    \/ LoopSteps

InitReload == \E cfg \in ReloadConfigs : Boot(cfg)

\* while a request that has begun can take a step, one of them does, and the
\* reload goroutine takes its step when it can
SpecReload ==
    /\ InitReload /\ [][NextReload]_vars
    /\ WF_vars(WriteSteps \/ ReadSteps)
    /\ WF_vars(LoopSteps)

\* C24: the client that a /write request or a /read request in flight has
\* taken from the handler is never one that Shutdown was called on.
C24_NoUseAfterShutdown ==
    /\ \A r \in Reqs : req[r].pc # "idle" => ~IsShutDown(req[r].client)
    /\ rreq.pc # "idle" => ~IsShutDown(rreq.reader)

\* a reload waits for the lock while a /write request and a /read request
\* are using the clients
C24_Witness ==
    /\ rl.pc = "lock"
    /\ \E r \in Reqs : req[r].pc = "samples" /\ req[r].n > 0
    /\ rreq.pc = "reading"

====
